---- MODULE Spec2Model ----
(***************************************************************************)
(* A model of the transport layer of ichramm/cppmisc:                      *)
(*   - et::transport::tcp_connection (src/transport/tcp_connection.hpp):   *)
(*     the chunked read(n) and write(buf) chains over one stream socket;   *)
(*   - et::transport::tcp_listener (src/transport/__buffer.hpp): the       *)
(*     accept chain, the worker threads and start()/stop().                *)
(*                                                                         *)
(* Bytes are integers.  The peer's stream is 1, 2, 3, ... so that a byte   *)
(* names its position in the stream; the buffer of the w-th write is       *)
(* 100*w+1, 100*w+2, ...; 0 is a value-initialised char; Garbage is what a *)
(* read outside an object yields.                                          *)
(***************************************************************************)
EXTENDS Integers, Sequences, FiniteSets, TLC

\* std::array<char, BUFFER_LENGTH>: the scratch size C (1024 in the source),
\* scaled down so that lengths around C and 10*C can be enumerated.
BUFFER_LENGTH == 3
\* the longest read the application asks for in Spec and SpecSerial
MaxN == 7
\* the longest buffer the application writes in Spec and SpecSerial
MaxL == 4
\* the number of bytes the peer sends in Spec and SpecSerial
MaxStream == 7
\* the number of operations (reads and writes together) the application issues
MaxOps == 2
\* tcp_listener::THREADS, the default size of threads_
THREADS == 2
\* the number of times the application calls start()
MaxRuns == 2
\* the number of accepts the network completes (connections and failures)
MaxEvents == 2
\* the number of times the application calls stop() on a stopped listener
MaxStopThrows == 1
\* a write chain whose sent-so-far counter has passed the end of the buffer
\* never terminates: it is followed for this many bytes past the end
MaxOverrun == 6

\* the number of datagrams that peers other than the writing handle send
MaxArrive == 2
\* the longest datagram such a peer sends
MaxDgram == 2
\* the number of sender addresses of such peers
MaxSenders == 2
\* the number of reads issued on a udp_connection
MaxUdpReads == 3
\* the number of writes issued on a udp_connection
MaxUdpWrites == 1
\* the longest buffer written to a udp_connection
MaxUdpL == 7
\* the number of threads that use the concurrent_queue
MaxQThreads == 3
\* the number of calls (push, pop, clear) the threads make
MaxQueueOps == 4
\* the number of threads that use the synchronizer
MaxSThreads == 2
\* the number of calls (set, reset, wait, is_condition_met) the threads make
MaxSyncOps == 3
\* a thread is woken spuriously only while its wait has blocked fewer times
MaxWaits == 2

ReadIds == 1..MaxOps
WriteIds == 1..MaxOps

Garbage == 0 - 1

Min(a, b) == IF a < b THEN a ELSE b

\* the bytes i of the peer's stream for i in lo+1..lo+n
Stream(lo, n) == [i \in 1..n |-> lo + i]

\* the buffer handed to the w-th write
Buf(w, len) == [i \in 1..len |-> 100 * w + i]

\* size_t subtraction wraps; 2^30 stands for 2^64 (any modulus above
\* BUFFER_LENGTH and the lengths of the model gives the same chunks)
SizeSub(a, b) == (a - b) % (2 ^ 30)

\* std::vector<char>::resize(n): keeps the prefix, value-initialises the rest
Resize(s, n) == [i \in 1..n |-> IF i <= Len(s) THEN s[i] ELSE 0]

\* memcpy(&dst[off], &src[0], len), the part that lands inside dst
Memcpy(dst, off, src, len) ==
    [i \in 1..Len(dst) |-> IF off < i /\ i <= off + len THEN src[i - off] ELSE dst[i]]

\* &src[off] .. &src[off+len) read for a memcpy: Garbage outside src
ReadAt(src, off, len) ==
    [i \in 1..len |-> IF off + i <= Len(src) THEN src[off + i] ELSE Garbage]

VARIABLES
    \* ---- tcp_connection ----
    alive,            \* the handle object exists (not yet destroyed)
    appRef,           \* the application holds its shared_ptr to the handle
    read_buffer_,     \* std::array<char, BUFFER_LENGTH>
    write_buffer_,    \* std::array<char, BUFFER_LENGTH>
    incoming_data_,   \* std::vector<char>
    outgoing_data_,   \* std::vector<char>
    rd,               \* the read operations: position of each read chain
    wr,               \* the write operations: position of each write chain
    rcb,              \* per read, the invocations of its user callback
    wcb,              \* per write, the invocations of its user callback
    inWire,           \* bytes received by the socket, not yet read
    peerSent,         \* number of bytes the peer has sent
    inClosed,         \* the peer has closed its sending side
    consumed,         \* number of bytes read from the socket so far
    outWire,          \* bytes sent by the socket, in flight to the peer
    sentLog,          \* every byte the socket has sent, in order
    outBroken,        \* sends fail from now on (connection reset)
    ub,               \* a memcpy went outside incoming_data_ / outgoing_data_
    dangling          \* a completion handler ran against a destroyed handle

connVars == <<alive, appRef, read_buffer_, write_buffer_, incoming_data_,
              outgoing_data_, rd, wr, rcb, wcb, inWire, peerSent, inClosed,
              consumed, outWire, sentLog, outBroken, ub, dangling>>

VARIABLES
    \* ---- tcp_listener ----
    threads_,             \* per worker: "none" (no thread), "spawned", "run"
                          \* (in ioservice_.run()), "handler" (inside a
                          \* completion handler), "exited" (run() has returned)
    handling,             \* per worker, the completion whose handler it runs
    ioservice_,           \* [stopped, queue]: the stopped flag and the
                          \* completions waiting for a thread in run()
    acceptor_,            \* [open, ops]: the accepts outstanding on the acceptor
    connection_handler_,  \* 0: empty; k: the handler given to the k-th start()
    lpc,                  \* where the application thread is in start()/stop()
    running,              \* start() has returned and stop() was not called since
    joining,              \* the thread stop() joins next
    runs,                 \* number of calls of start()
    events,               \* number of accepts the network has completed
    nextConn,             \* number of tcp_connection objects made so far
    threw,                \* number of calls of stop() that ended in an exception
    chainErr,             \* the accept chains of which an accept has failed
    calls                 \* the invocations of the handler, in order

lisVars == <<threads_, handling, ioservice_, acceptor_, connection_handler_, lpc,
             running, joining, runs, events, nextConn, threw, chainErr, calls>>

VARIABLES
    \* ---- udp_connection ----
    udp_open,             \* socket_ is open
    socket_rx,            \* the datagrams queued in the socket, oldest first
    arrived,              \* history: the datagrams that reached the socket
    ur,                   \* the read operations, see IdleUdpRead
    ucalls,               \* the invocations of read callbacks, in order
    uthrew,               \* a completion handler was left by an exception
    udp_outgoing_data_,   \* outgoing_data_ of udp_connection
    udp_write_buffer_,    \* write_buffer_ of udp_connection
    uw,                   \* the write operations, see IdleUdpWrite
    uwcalls,              \* the invocations of write callbacks, in order
    net                   \* the datagrams sent and not yet delivered to the peer

udpVars == <<udp_open, socket_rx, arrived, ur, ucalls, uthrew, udp_outgoing_data_,
             udp_write_buffer_, uw, uwcalls, net>>

VARIABLES
    \* ---- concurrent_queue ----
    _size,                \* the atomic counter
    _container,           \* the std::list, front first
    _mutex,               \* 0: free; t: locked by thread t
    _condition,           \* the threads blocked in wait or timed_wait
    qpc,                  \* per thread, where it is in its call
    qtimed,               \* per thread, whether its pop has a timeout
    qarg,                 \* per thread, the element it pushes
    qcalls,               \* number of calls made so far
    pushed,               \* history: the elements in the order of do_push
    gone,                 \* history: the elements removed, by do_pop or clear
    returns               \* history: how the calls of pop returned

utilVars == <<_size, _container, _mutex, _condition, qpc, qtimed, qarg, qcalls,
              pushed, gone, returns>>

VARIABLES
    \* ---- synchronizer ----
    _condition_met,       \* the condition
    _sync_mutex,          \* 0: free; t: locked by thread t
    _sync_condition,      \* _condition: the threads blocked in wait or timed_wait
    spc,                  \* per thread, where it is in its call of wait
    stimed,               \* per thread in wait, whether the wait has a deadline
    spassed,              \* per thread in wait, whether that deadline has passed
    srounds,              \* per thread in wait, how often the wait has blocked
    scount,               \* number of calls made so far
    slog,                 \* history: the latest call
    sreturns              \* history: how the latest call of wait that returned did so

syncVars == <<_condition_met, _sync_mutex, _sync_condition, spc, stimed, spassed,
              srounds, scount, slog, sreturns>>

vars == <<connVars, lisVars, udpVars, utilVars, syncVars, syncVars>>

\* A read operation: st is "idle" (not issued), "io" (an async_read is in the
\* reactor), "done" (its completion handler is queued) or "fin" (the chain has
\* ended); n is the length asked for, bytes and read_bytes the arguments of
\* the private read, got the bytes transferred by the current async_read,
\* err its error code.  start (the stream position at which the read was
\* issued) and failed (the number of chunks that ended with an error) are
\* history.
IdleRead == [st |-> "idle", n |-> 0, bytes |-> 0, read_bytes |-> 0, got |-> 0,
             err |-> "ok", start |-> 0, failed |-> 0]
\* A write operation: sent is the argument of the private write, increment
\* the size of the current chunk, put the bytes transferred by the current
\* async_write; len (the length of the buffer handed over), failed and out
\* (the bytes this chain has put on the wire) are history.
IdleWrite == [st |-> "idle", len |-> 0, sent |-> 0, increment |-> 0, put |-> 0,
              err |-> "ok", failed |-> 0, out |-> <<>>]

ConnInit ==
    /\ alive = TRUE
    /\ appRef = TRUE
    /\ read_buffer_ = [i \in 1..BUFFER_LENGTH |-> 0]
    /\ write_buffer_ = [i \in 1..BUFFER_LENGTH |-> 0]
    /\ incoming_data_ = <<>>
    /\ outgoing_data_ = <<>>
    /\ rd = [r \in ReadIds |-> IdleRead]
    /\ wr = [w \in WriteIds |-> IdleWrite]
    /\ rcb = [r \in ReadIds |-> <<>>]
    /\ wcb = [w \in WriteIds |-> <<>>]
    /\ inWire = <<>>
    /\ peerSent = 0
    /\ inClosed = FALSE
    /\ consumed = 0
    /\ outWire = <<>>
    /\ sentLog = <<>>
    /\ outBroken = FALSE
    /\ ub = FALSE
    /\ dangling = FALSE

(***************************************************************************)
(* tcp_connection: the read chain                                          *)
(***************************************************************************)

\* mutant of ReadChunkSize: every receive asks for a full scratch buffer
ReadChunkSizeWhole(bytes) == BUFFER_LENGTH

\* the size of the scratch window handed to asio::async_read
ReadChunkSize(bytes) == IF bytes < BUFFER_LENGTH THEN bytes ELSE BUFFER_LENGTH

\* the completion condition passed to asio::async_read (old style: true = done)
CompletionCondition(error, len, bytes) == error # "ok" \/ len >= bytes

\* asio::async_read completes when the condition says so or the window is full
AsyncReadDone(error, len, bytes) ==
    CompletionCondition(error, len, bytes) \/ len = ReadChunkSize(bytes)

\* mutant of NextOffset: the offset is not advanced
NextOffsetStuck(read_bytes, len) == read_bytes

\* the offset at which the next chunk is copied: read_bytes+len
NextOffset(read_bytes, len) == read_bytes + len

\* the private read(bytes, buffer, callback, read_bytes): arms one async_read
ArmRead(op, bytes, read_bytes) ==
    [op EXCEPT !.st = IF AsyncReadDone("ok", 0, bytes) THEN "done" ELSE "io",
               !.bytes = bytes, !.read_bytes = read_bytes, !.got = 0, !.err = "ok"]

\* mutant of ReadScratch: one scratch buffer shared by both directions
ReadScratchShared(rbuf, wbuf) == wbuf

\* the scratch buffer the chunk handler copies from: &read_buffer_[0]
ReadScratch(rbuf, wbuf) == rbuf

\* what the lambda of the public read hands to the user callback with `error`:
\* std::move(incoming_data_), whatever the error
CallbackBuffer(error, buffer) == buffer

\* incoming_data_ after std::move into the by-value parameter of the callback
MovedFrom == <<>>

\* the number of shared_ptr references an outstanding operation holds on its
\* handle: the lambdas capture `this`, never shared_from_this()
OperationRefs(op) == 0

Outstanding(op) == op.st \in {"io", "done"}

\* the number of operations the application has issued so far
Issued ==
    Cardinality({r \in ReadIds : rd[r].st # "idle"})
        + Cardinality({w \in WriteIds : wr[w].st # "idle"})

ReadsOutstanding == {r \in ReadIds : Outstanding(rd[r])}
WritesOutstanding == {w \in WriteIds : Outstanding(wr[w])}

\* read(bytes, callback): the application asks for n bytes.  `serial` is the
\* discipline of the application: it waits for the callback of its previous
\* read before it issues the next one.
ReadStart(serial, n) ==
    /\ alive /\ appRef
    /\ Issued < MaxOps
    /\ serial => ReadsOutstanding = {}
    /\ \E r \in ReadIds :
        /\ rd[r].st = "idle"
        /\ \A q \in ReadIds : q < r => rd[q].st # "idle"
        /\ incoming_data_' = Resize(incoming_data_, n)
        /\ rd' = [rd EXCEPT ![r] =
                     ArmRead([IdleRead EXCEPT !.n = n, !.start = consumed], n, 0)]
    /\ UNCHANGED <<lisVars, udpVars, utilVars, syncVars, alive, appRef, read_buffer_, write_buffer_, outgoing_data_, wr,
                   rcb, wcb, inWire, peerSent, inClosed, consumed, outWire,
                   sentLog, outBroken, ub, dangling>>

\* one async_read_some of the composed async_read: the bytes that have arrived
\* go to the free part of the scratch window.  How the stream is split into
\* packets is the interleaving of PeerSend (one byte arrives) with this step.
ReadSome(r) ==
    /\ rd[r].st = "io"
    /\ Len(inWire) > 0
    /\ LET op == rd[r]
           k == Min(Len(inWire), ReadChunkSize(op.bytes) - op.got)
       IN /\ read_buffer_' = [i \in 1..BUFFER_LENGTH |->
                                 IF op.got < i /\ i <= op.got + k
                                 THEN inWire[i - op.got] ELSE read_buffer_[i]]
          /\ inWire' = SubSeq(inWire, k + 1, Len(inWire))
          /\ consumed' = consumed + k
          /\ rd' = [rd EXCEPT ![r].got = op.got + k,
                              ![r].st = IF AsyncReadDone("ok", op.got + k, op.bytes)
                                        THEN "done" ELSE "io"]
    /\ UNCHANGED <<lisVars, udpVars, utilVars, syncVars, alive, appRef, write_buffer_, incoming_data_, outgoing_data_, wr,
                   rcb, wcb, peerSent, inClosed, outWire, sentLog, outBroken, ub,
                   dangling>>

\* the peer has closed and nothing is left to read: async_read ends with eof
ReadEof(r) ==
    /\ rd[r].st = "io"
    /\ inWire = <<>> /\ inClosed
    /\ rd' = [rd EXCEPT ![r].st = "done", ![r].err = "eof", ![r].failed = @ + 1]
    /\ UNCHANGED <<lisVars, udpVars, utilVars, syncVars, alive, appRef, read_buffer_, write_buffer_, incoming_data_,
                   outgoing_data_, wr, rcb, wcb, inWire, peerSent, inClosed,
                   consumed, outWire, sentLog, outBroken, ub, dangling>>

\* the completion handler of one chunk (the second lambda of the private read),
\* with the lambda of the public read it calls at the end of the chain
ReadHandler(r) ==
    /\ rd[r].st = "done"
    /\ alive
    /\ LET op == rd[r]
           len == op.got
           copied == Memcpy(incoming_data_, op.read_bytes,
                            ReadScratch(read_buffer_, write_buffer_), len)
       IN IF op.err # "ok"
          THEN /\ rcb' = [rcb EXCEPT ![r] = Append(@,
                           [err |-> op.err, data |-> CallbackBuffer(op.err, incoming_data_)])]
               /\ incoming_data_' = MovedFrom
               /\ rd' = [rd EXCEPT ![r].st = "fin"]
               /\ UNCHANGED ub
          ELSE /\ ub' = (ub \/ op.read_bytes + len > Len(incoming_data_))
               /\ IF SizeSub(op.bytes, len) > 0
                  THEN /\ rd' = [rd EXCEPT ![r] =
                                ArmRead(op, op.bytes - len, NextOffset(op.read_bytes, len))]
                       /\ incoming_data_' = copied
                       /\ UNCHANGED rcb
                  ELSE /\ rcb' = [rcb EXCEPT ![r] = Append(@,
                                   [err |-> "ok", data |-> CallbackBuffer("ok", copied)])]
                       /\ incoming_data_' = MovedFrom
                       /\ rd' = [rd EXCEPT ![r].st = "fin"]
    /\ UNCHANGED <<lisVars, udpVars, utilVars, syncVars, alive, appRef, read_buffer_, write_buffer_, outgoing_data_, wr,
                   wcb, inWire, peerSent, inClosed, consumed, outWire, sentLog,
                   outBroken, dangling>>

(***************************************************************************)
(* tcp_connection: the write chain                                         *)
(***************************************************************************)

\* size_t increment = outgoing_data_.size() - sent, capped at BUFFER_LENGTH
WriteIncrement(size, sent) ==
    IF SizeSub(size, sent) < BUFFER_LENGTH THEN SizeSub(size, sent) ELSE BUFFER_LENGTH

\* mutant of WriteFinished: the error is not looked at
WriteFinishedIgnoringError(error, sent, bytes_transferred, size) ==
    sent + bytes_transferred = size

\* the handler of one async_write ends the chain: error, or everything sent
WriteFinished(error, sent, bytes_transferred, size) ==
    error # "ok" \/ sent + bytes_transferred = size

\* mutant of StageChunk: every chunk is taken from the start of the buffer
StageChunkFromStart(scratch, data, sent, increment) ==
    [i \in 1..BUFFER_LENGTH |->
        IF i <= increment THEN ReadAt(data, 0, increment)[i] ELSE scratch[i]]

\* write_buffer_ after memcpy(&write_buffer_[0], &outgoing_data_[sent], increment)
StageChunk(scratch, data, sent, increment) ==
    [i \in 1..BUFFER_LENGTH |->
        IF i <= increment THEN ReadAt(data, sent, increment)[i] ELSE scratch[i]]

\* the private write(callback, sent) on the buffer `data`: arms one async_write
ArmWrite(op, data, sent) ==
    [op EXCEPT !.st = IF WriteIncrement(Len(data), sent) = 0 THEN "done" ELSE "io",
               !.sent = sent, !.increment = WriteIncrement(Len(data), sent),
               !.put = 0, !.err = "ok"]

\* write(data, callback): the application hands over a buffer of len bytes
WriteStart(serial, len) ==
    /\ alive /\ appRef
    /\ Issued < MaxOps
    /\ serial => WritesOutstanding = {}
    /\ \E w \in WriteIds :
        /\ wr[w].st = "idle"
        /\ \A q \in WriteIds : q < w => wr[q].st # "idle"
        /\ outgoing_data_' = Buf(w, len)
        /\ write_buffer_' = StageChunk(write_buffer_, Buf(w, len), 0,
                                       WriteIncrement(len, 0))
        /\ wr' = [wr EXCEPT ![w] = ArmWrite([IdleWrite EXCEPT !.len = len],
                                            Buf(w, len), 0)]
    /\ UNCHANGED <<lisVars, udpVars, utilVars, syncVars, alive, appRef, read_buffer_, incoming_data_, rd, rcb, wcb, inWire,
                   peerSent, inClosed, consumed, outWire, sentLog, outBroken, ub,
                   dangling>>

\* one async_write_some of the composed async_write: k more bytes of the
\* scratch window go on the wire
WriteSome(w, k) ==
    /\ wr[w].st = "io"
    /\ ~outBroken
    /\ LET op == wr[w]
       IN /\ k \in 1..(op.increment - op.put)
          /\ outWire' = outWire \o SubSeq(write_buffer_, op.put + 1, op.put + k)
          /\ sentLog' = sentLog \o SubSeq(write_buffer_, op.put + 1, op.put + k)
          /\ wr' = [wr EXCEPT ![w].put = op.put + k,
                              ![w].st = IF op.put + k = op.increment
                                        THEN "done" ELSE "io",
                              ![w].out = @ \o SubSeq(write_buffer_, op.put + 1,
                                                     op.put + k)]
    /\ UNCHANGED <<lisVars, udpVars, utilVars, syncVars, alive, appRef, read_buffer_, write_buffer_, incoming_data_,
                   outgoing_data_, rd, rcb, wcb, inWire, peerSent, inClosed,
                   consumed, outBroken, ub, dangling>>

\* the connection is broken: async_write ends with an error
WriteFail(w) ==
    /\ wr[w].st = "io"
    /\ outBroken
    /\ wr' = [wr EXCEPT ![w].st = "done", ![w].err = "broken", ![w].failed = @ + 1]
    /\ UNCHANGED <<lisVars, udpVars, utilVars, syncVars, alive, appRef, read_buffer_, write_buffer_, incoming_data_,
                   outgoing_data_, rd, rcb, wcb, inWire, peerSent, inClosed,
                   consumed, outWire, sentLog, outBroken, ub, dangling>>

\* the completion handler of one async_write (the lambda of the private write)
WriteHandler(w) ==
    /\ wr[w].st = "done"
    /\ alive
    /\ LET op == wr[w]
           next == op.sent + op.put
       IN IF WriteFinished(op.err, op.sent, op.put, Len(outgoing_data_))
          THEN /\ wcb' = [wcb EXCEPT ![w] = Append(@, [err |-> op.err])]
               /\ wr' = [wr EXCEPT ![w].st = "fin"]
               /\ UNCHANGED <<write_buffer_, ub>>
          ELSE /\ next <= Len(outgoing_data_) + MaxOverrun
               /\ wr' = [wr EXCEPT ![w] = ArmWrite(op, outgoing_data_, next)]
               /\ write_buffer_' = StageChunk(write_buffer_, outgoing_data_, next,
                                     WriteIncrement(Len(outgoing_data_), next))
               /\ ub' = (ub \/ next + WriteIncrement(Len(outgoing_data_), next)
                                  > Len(outgoing_data_))
               /\ UNCHANGED wcb
    /\ UNCHANGED <<lisVars, udpVars, utilVars, syncVars, alive, appRef, read_buffer_, incoming_data_, outgoing_data_, rd,
                   rcb, inWire, peerSent, inClosed, consumed, outWire, sentLog,
                   outBroken, dangling>>

(***************************************************************************)
(* The peer and the network                                                *)
(***************************************************************************)

\* the next byte of the peer's stream arrives at the socket
PeerSend ==
    /\ ~inClosed
    /\ peerSent < MaxStream
    /\ inWire' = Append(inWire, peerSent + 1)
    /\ peerSent' = peerSent + 1
    /\ UNCHANGED <<lisVars, udpVars, utilVars, syncVars, alive, appRef, read_buffer_, write_buffer_, incoming_data_,
                   outgoing_data_, rd, wr, rcb, wcb, inClosed, consumed, outWire,
                   sentLog, outBroken, ub, dangling>>

\* the peer closes its sending side
PeerClose ==
    /\ ~inClosed
    /\ inClosed' = TRUE
    /\ UNCHANGED <<lisVars, udpVars, utilVars, syncVars, alive, appRef, read_buffer_, write_buffer_, incoming_data_,
                   outgoing_data_, rd, wr, rcb, wcb, inWire, peerSent, consumed,
                   outWire, sentLog, outBroken, ub, dangling>>

\* the connection breaks for sending
Break ==
    /\ ~outBroken
    /\ outBroken' = TRUE
    /\ UNCHANGED <<lisVars, udpVars, utilVars, syncVars, alive, appRef, read_buffer_, write_buffer_, incoming_data_,
                   outgoing_data_, rd, wr, rcb, wcb, inWire, peerSent, inClosed,
                   consumed, outWire, sentLog, ub, dangling>>

(***************************************************************************)
(* Lifetime of the handle                                                  *)
(***************************************************************************)

\* shared_ptr use count of the handle once the application has `app` references
UseCount(app) ==
    app + Cardinality(ReadsOutstanding) * OperationRefs("read")
        + Cardinality(WritesOutstanding) * OperationRefs("write")

\* ~socket_: an operation still in the reactor completes with operation_aborted
Aborted(op) ==
    IF op.st = "io"
    THEN [op EXCEPT !.st = "done", !.err = "aborted", !.failed = @ + 1]
    ELSE op

\* the application drops its shared_ptr; the handle is destroyed when the use
\* count reaches zero, and its destructor closes the socket
Release ==
    /\ appRef
    /\ appRef' = FALSE
    /\ alive' = (UseCount(0) > 0)
    /\ IF UseCount(0) > 0
       THEN UNCHANGED <<rd, wr>>
       ELSE /\ rd' = [r \in ReadIds |-> Aborted(rd[r])]
            /\ wr' = [w \in WriteIds |-> Aborted(wr[w])]
    /\ UNCHANGED <<lisVars, udpVars, utilVars, syncVars, read_buffer_, write_buffer_, incoming_data_, outgoing_data_, rcb,
                   wcb, inWire, peerSent, inClosed, consumed, outWire, sentLog,
                   outBroken, ub, dangling>>

\* a read completion handler runs after the handle was destroyed: both of its
\* branches go through `this` (read_buffer_, incoming_data_), which dangles.
\* Either the callback is reached with whatever the freed memory holds, or
\* the process dies first.
DanglingReadHandler(r) ==
    /\ rd[r].st = "done"
    /\ ~alive
    /\ dangling' = TRUE
    /\ rd' = [rd EXCEPT ![r].st = "fin"]
    /\ \/ rcb' = [rcb EXCEPT ![r] = Append(@, [err |-> rd[r].err, data |-> <<Garbage>>])]
       \/ UNCHANGED rcb
    /\ UNCHANGED <<lisVars, udpVars, utilVars, syncVars, alive, appRef, read_buffer_, write_buffer_, incoming_data_,
                   outgoing_data_, wr, wcb, inWire, peerSent, inClosed, consumed,
                   outWire, sentLog, outBroken, ub>>

\* a write completion handler runs after the handle was destroyed: with an
\* error the || short-circuits and only the captured callback is used; without
\* one outgoing_data_.size() is read through the dangling `this`
DanglingWriteHandler(w) ==
    /\ wr[w].st = "done"
    /\ ~alive
    /\ wr' = [wr EXCEPT ![w].st = "fin"]
    /\ IF wr[w].err # "ok"
       THEN /\ wcb' = [wcb EXCEPT ![w] = Append(@, [err |-> wr[w].err])]
            /\ UNCHANGED dangling
       ELSE /\ dangling' = TRUE
            /\ \/ wcb' = [wcb EXCEPT ![w] = Append(@, [err |-> "ok"])]
               \/ UNCHANGED wcb
    /\ UNCHANGED <<lisVars, udpVars, utilVars, syncVars, alive, appRef, read_buffer_, write_buffer_, incoming_data_,
                   outgoing_data_, rd, rcb, inWire, peerSent, inClosed, consumed,
                   outWire, sentLog, outBroken, ub>>

(***************************************************************************)
(* tcp_listener                                                            *)
(***************************************************************************)

Workers == 1..THREADS

\* no completion
NoCompletion == [err |-> "none", conn |-> 0, chain |-> 0]

LisInit ==
    /\ threads_ = [t \in Workers |-> "none"]
    /\ handling = [t \in Workers |-> NoCompletion]
    /\ ioservice_ = [stopped |-> FALSE, queue |-> <<>>]
    /\ acceptor_ = [open |-> FALSE, ops |-> {}]
    /\ connection_handler_ = 0
    /\ lpc = "idle"
    /\ running = FALSE
    /\ joining = 1
    /\ runs = 0
    /\ events = 0
    /\ nextConn = 0
    /\ threw = 0
    /\ chainErr = {}
    /\ calls = <<>>

\* mutant of Rearm: the chain is re-armed after an error too
RearmAlways(error) == TRUE

\* the handler of an accept re-arms the chain: only in its else branch
Rearm(error) == error = "ok"

\* the connection handed to connection_handler_: tcp_connection::ptr() with an
\* error, the accepted connection without
HandedConnection(error, conn) == IF error # "ok" THEN 0 ELSE conn

\* acceptor_.async_accept on the acceptor acc: the accept is outstanding if
\* the acceptor is open
ArmedAcceptor(acc, conn, chain) ==
    IF acc.open THEN [acc EXCEPT !.ops = @ \cup {[conn |-> conn, chain |-> chain]}]
    ELSE acc

\* ... and completes at once with bad_descriptor if it is closed
ArmedQueue(acc, queue, conn, chain) ==
    IF acc.open THEN queue
    ELSE Append(queue, [err |-> "bad_descriptor", conn |-> conn, chain |-> chain])

\* start(handler), up to the creation of the worker threads
StartSpawn ==
    /\ lpc = "idle" /\ ~running
    /\ runs < MaxRuns
    /\ \A t \in Workers : threads_[t] = "none"
    /\ runs' = runs + 1
    /\ connection_handler_' = runs + 1
    /\ ioservice_' = [ioservice_ EXCEPT !.stopped = FALSE]
    /\ threads_' = [t \in Workers |-> "spawned"]
    /\ lpc' = "start_open"
    /\ UNCHANGED <<connVars, udpVars, utilVars, syncVars, handling, acceptor_, running, joining, events,
                   nextConn, threw, chainErr, calls>>

\* start(): acceptor_.open, set_option, bind, listen
StartOpen ==
    /\ lpc = "start_open"
    /\ acceptor_' = [acceptor_ EXCEPT !.open = TRUE]
    /\ lpc' = "start_accept"
    /\ UNCHANGED <<connVars, udpVars, utilVars, syncVars, threads_, handling, ioservice_, connection_handler_,
                   running, joining, runs, events, nextConn, threw, chainErr, calls>>

\* start(): the first async_accept(); start() returns
StartAccept ==
    /\ lpc = "start_accept"
    /\ acceptor_' = ArmedAcceptor(acceptor_, nextConn + 1, runs)
    /\ ioservice_' = [ioservice_ EXCEPT
                         !.queue = ArmedQueue(acceptor_, @, nextConn + 1, runs)]
    /\ nextConn' = nextConn + 1
    /\ running' = TRUE
    /\ lpc' = "idle"
    /\ UNCHANGED <<connVars, udpVars, utilVars, syncVars, threads_, handling, connection_handler_, joining, runs,
                   events, threw, chainErr, calls>>

\* a worker thread enters ioservice_.run(), which returns at once if the
\* io_service is stopped
WorkerEnter(t) ==
    /\ threads_[t] = "spawned"
    /\ threads_' = [threads_ EXCEPT ![t] = IF ioservice_.stopped THEN "exited" ELSE "run"]
    /\ UNCHANGED <<connVars, udpVars, utilVars, syncVars, handling, ioservice_, acceptor_, connection_handler_,
                   lpc, running, joining, runs, events, nextConn, threw, chainErr,
                   calls>>

\* run() takes the next completion and calls its handler, the lambda of
\* async_accept, which calls connection_handler_
WorkerDispatch(t) ==
    /\ threads_[t] = "run"
    /\ ~ioservice_.stopped
    /\ ioservice_.queue # <<>>
    /\ LET c == Head(ioservice_.queue)
       IN /\ handling' = [handling EXCEPT ![t] = c]
          /\ calls' = Append(calls, [h |-> connection_handler_, err |-> c.err,
                                     conn |-> HandedConnection(c.err, c.conn),
                                     id |-> c.conn, chain |-> c.chain, run |-> runs])
    /\ ioservice_' = [ioservice_ EXCEPT !.queue = Tail(@)]
    /\ threads_' = [threads_ EXCEPT ![t] = "handler"]
    /\ UNCHANGED <<connVars, udpVars, utilVars, syncVars, acceptor_, connection_handler_, lpc, running, joining,
                   runs, events, nextConn, threw, chainErr>>

\* connection_handler_ returns; after a successful accept the lambda calls
\* async_accept() again
WorkerReturn(t) ==
    /\ threads_[t] = "handler"
    /\ LET c == handling[t]
       IN IF Rearm(c.err)
          THEN /\ acceptor_' = ArmedAcceptor(acceptor_, nextConn + 1, c.chain)
               /\ ioservice_' = [ioservice_ EXCEPT
                                    !.queue = ArmedQueue(acceptor_, @, nextConn + 1, c.chain)]
               /\ nextConn' = nextConn + 1
               /\ chainErr' = IF acceptor_.open THEN chainErr ELSE chainErr \cup {c.chain}
          ELSE UNCHANGED <<acceptor_, ioservice_, nextConn, chainErr>>
    /\ handling' = [handling EXCEPT ![t] = NoCompletion]
    /\ threads_' = [threads_ EXCEPT ![t] = "run"]
    /\ UNCHANGED <<connVars, udpVars, utilVars, syncVars, connection_handler_, lpc, running, joining, runs,
                   events, threw, calls>>

\* run() returns because the io_service is stopped
WorkerExit(t) ==
    /\ threads_[t] = "run"
    /\ ioservice_.stopped
    /\ threads_' = [threads_ EXCEPT ![t] = "exited"]
    /\ UNCHANGED <<connVars, udpVars, utilVars, syncVars, handling, ioservice_, acceptor_, connection_handler_,
                   lpc, running, joining, runs, events, nextConn, threw, chainErr,
                   calls>>

\* a client connects: an outstanding accept completes without error
Connect(op) ==
    /\ op \in acceptor_.ops
    /\ events < MaxEvents
    /\ events' = events + 1
    /\ acceptor_' = [acceptor_ EXCEPT !.ops = @ \ {op}]
    /\ ioservice_' = [ioservice_ EXCEPT !.queue =
                         Append(@, [err |-> "ok", conn |-> op.conn, chain |-> op.chain])]
    /\ UNCHANGED <<connVars, udpVars, utilVars, syncVars, threads_, handling, connection_handler_, lpc, running,
                   joining, runs, nextConn, threw, chainErr, calls>>

\* an outstanding accept fails (no descriptor left, say)
AcceptError(op) ==
    /\ op \in acceptor_.ops
    /\ events < MaxEvents
    /\ events' = events + 1
    /\ acceptor_' = [acceptor_ EXCEPT !.ops = @ \ {op}]
    /\ ioservice_' = [ioservice_ EXCEPT !.queue =
                         Append(@, [err |-> "error", conn |-> op.conn, chain |-> op.chain])]
    /\ chainErr' = chainErr \cup {op.chain}
    /\ UNCHANGED <<connVars, udpVars, utilVars, syncVars, threads_, handling, connection_handler_, lpc, running,
                   joining, runs, nextConn, threw, calls>>

\* the accepts of `ops` as completions with operation_aborted, oldest first
RECURSIVE AbortedOps(_)
AbortedOps(ops) ==
    IF ops = {} THEN <<>>
    ELSE LET op == CHOOSE o \in ops : \A p \in ops : o.conn <= p.conn
         IN <<[err |-> "aborted", conn |-> op.conn, chain |-> op.chain]>>
                \o AbortedOps(ops \ {op})

\* stop(): acceptor_.close() posts the outstanding accepts as aborted
StopClose ==
    /\ lpc = "idle"
    /\ running \/ threw < MaxStopThrows
    /\ acceptor_' = [open |-> FALSE, ops |-> {}]
    /\ ioservice_' = [ioservice_ EXCEPT !.queue = @ \o AbortedOps(acceptor_.ops)]
    /\ chainErr' = chainErr \cup {op.chain : op \in acceptor_.ops}
    /\ running' = FALSE
    /\ lpc' = "stop_io"
    /\ UNCHANGED <<connVars, udpVars, utilVars, syncVars, threads_, handling, connection_handler_, joining, runs,
                   events, nextConn, threw, calls>>

\* mutant of IoServiceStop: the io_service is not stopped
IoServiceStopMissing(ios) == ios

\* io_service::stop(): the stopped flag is set, every run() returns as soon as
\* it can; the completions that are queued stay queued
IoServiceStop(ios) == [ios EXCEPT !.stopped = TRUE]

\* stop(): ioservice_.stop()
StopIo ==
    /\ lpc = "stop_io"
    /\ ioservice_' = IoServiceStop(ioservice_)
    /\ joining' = 1
    /\ lpc' = "stop_join"
    /\ UNCHANGED <<connVars, udpVars, utilVars, syncVars, threads_, handling, acceptor_, connection_handler_,
                   running, runs, events, nextConn, threw, chainErr, calls>>

\* stop(): thread.join() returns once the thread has left run(); on a thread
\* that is not joinable it throws std::system_error and stop() is left
StopJoin ==
    /\ lpc = "stop_join"
    /\ joining \in Workers
    /\ threads_[joining] \in {"none", "exited"}
    /\ IF threads_[joining] = "none"
       THEN /\ threw' = threw + 1
            /\ lpc' = "idle"
            /\ UNCHANGED <<threads_, joining>>
       ELSE /\ threads_' = [threads_ EXCEPT ![joining] = "none"]
            /\ joining' = joining + 1
            /\ lpc' = IF joining = THREADS THEN "stop_clear" ELSE "stop_join"
            /\ UNCHANGED threw
    /\ UNCHANGED <<connVars, udpVars, utilVars, syncVars, handling, ioservice_, acceptor_, connection_handler_,
                   running, runs, events, nextConn, chainErr, calls>>

\* stop(): connection_handler_ = Handler_Type(); stop() returns
StopClear ==
    /\ lpc = "stop_clear"
    /\ connection_handler_' = 0
    /\ lpc' = "idle"
    /\ UNCHANGED <<connVars, udpVars, utilVars, syncVars, threads_, handling, ioservice_, acceptor_, running,
                   joining, runs, events, nextConn, threw, chainErr, calls>>

NextListener ==
    \/ StartSpawn
    \/ StartOpen
    \/ StartAccept
    \/ \E t \in Workers : WorkerEnter(t)
    \/ \E t \in Workers : WorkerDispatch(t)
    \/ \E t \in Workers : WorkerReturn(t)
    \/ \E t \in Workers : WorkerExit(t)
    \/ \E op \in acceptor_.ops : Connect(op)
    \/ \E op \in acceptor_.ops : AcceptError(op)
    \/ StopClose
    \/ StopIo
    \/ StopJoin
    \/ StopClear

(***************************************************************************)
(* udp_connection                                                          *)
(*                                                                         *)
(* As for the stream round trip, the write side (udp_outgoing_data_,       *)
(* udp_write_buffer_, uw) is one handle's and the read side (socket_rx,    *)
(* ur) its peer's; net carries the datagrams of the first to the second,   *)
(* which also receives datagrams from other senders.  BUFFER_LENGTH of     *)
(* udp_connection has the value of BUFFER_LENGTH of tcp_connection.        *)
(***************************************************************************)

UdpReadIds == 1..MaxUdpReads
UdpWriteIds == 1..MaxUdpWrites

\* endpoint_type(): the default-constructed address
NoEndpoint == 0
\* the address of the writing handle
WriterEndpoint == MaxSenders + 1

\* the payload of the k-th datagram of the other senders, n bytes long
Dgram(k, n) == [i \in 1..n |-> 10 * k + i]

\* buffer_type(n): n value-initialised bytes
Zeros(n) == [i \in 1..n |-> 0]

\* A read operation: st is "idle", "probe" (the zero-length async_receive is
\* outstanding), "probed" (its handler is queued), "recv" (async_receive_from
\* is outstanding), "recvd" (its handler is queued), "fin" (the callback has
\* been invoked) or "threw"; buffer and endpoint are the fields of
\* udp_read_cb_data, err and got the arguments of the queued handler.
IdleUdpRead == [st |-> "idle", buffer |-> <<>>, endpoint |-> NoEndpoint,
                err |-> "ok", got |-> 0]
\* A write operation, as for tcp_connection
IdleUdpWrite == [st |-> "idle", len |-> 0, sent |-> 0, increment |-> 0, put |-> 0,
                 err |-> "ok", out |-> <<>>]

UdpInit ==
    /\ udp_open = TRUE
    /\ socket_rx = <<>>
    /\ arrived = <<>>
    /\ ur = [r \in UdpReadIds |-> IdleUdpRead]
    /\ ucalls = <<>>
    /\ uthrew = FALSE
    /\ udp_outgoing_data_ = <<>>
    /\ udp_write_buffer_ = [i \in 1..BUFFER_LENGTH |-> 0]
    /\ uw = [w \in UdpWriteIds |-> IdleUdpWrite]
    /\ uwcalls = <<>>
    /\ net = <<>>

UdpOutstanding(op) == op.st \notin {"idle", "fin", "threw"}

RECURSIVE TotalBytes(_)
TotalBytes(rx) == IF rx = <<>> THEN 0 ELSE Len(Head(rx).data) + TotalBytes(Tail(rx))

\* socket_.available(): the number of bytes that can be read without
\* blocking.  For a datagram socket the operating system reports the size of
\* the next datagram or the size of all queued datagrams together.
Available(rx) ==
    IF rx = <<>> THEN {0} ELSE {Len(Head(rx).data), TotalBytes(rx)}

\* mutant of ReceiveBufferSize: the buffer is one byte shorter than the
\* number of bytes reported
ReceiveBufferSizeShort(available) == IF available > 0 THEN available - 1 ELSE 0

\* udp_read_cb_data(socket_.available()): the size of the receive buffer
ReceiveBufferSize(available) == available

\* receive_from into a buffer: the bytes of the datagram that fit
ReceivedInto(buffer, data) ==
    [i \in 1..Len(buffer) |-> IF i <= Len(data) THEN data[i] ELSE buffer[i]]

\* the lambda of async_receive_from: the buffer handed to the callback
UdpCallbackBuffer(error, buffer, bytes_transferred) ==
    IF error = "ok" THEN SubSeq(buffer, 1, bytes_transferred) ELSE buffer

\* read(callback): the zero-length receive that waits for a datagram
UdpRead(r) ==
    /\ ur[r].st = "idle"
    /\ \A q \in UdpReadIds : q < r => ur[q].st # "idle"
    /\ \A q \in UdpReadIds : ~UdpOutstanding(ur[q])
    /\ ur' = [ur EXCEPT ![r] =
                 IF udp_open THEN [@ EXCEPT !.st = "probe"]
                 ELSE [@ EXCEPT !.st = "probed", !.err = "bad_descriptor"]]
    /\ UNCHANGED <<connVars, lisVars, utilVars, syncVars, udp_open, socket_rx, arrived, ucalls,
                   uthrew, udp_outgoing_data_, udp_write_buffer_, uw, uwcalls, net>>

\* the socket is readable: the zero-length receive completes
UdpProbeDone(r) ==
    /\ ur[r].st = "probe"
    /\ socket_rx # <<>>
    /\ ur' = [ur EXCEPT ![r] = [@ EXCEPT !.st = "probed", !.err = "ok"]]
    /\ UNCHANGED <<connVars, lisVars, utilVars, syncVars, udp_open, socket_rx, arrived, ucalls,
                   uthrew, udp_outgoing_data_, udp_write_buffer_, uw, uwcalls, net>>

\* the handler of the zero-length receive
UdpProbeHandler(r) ==
    /\ ur[r].st = "probed"
    /\ IF ur[r].err # "ok"
       THEN /\ ucalls' = Append(ucalls, [r |-> r, err |-> ur[r].err,
                                         endpoint |-> NoEndpoint, buffer |-> <<>>])
            /\ ur' = [ur EXCEPT ![r] = [@ EXCEPT !.st = "fin"]]
            /\ UNCHANGED uthrew
       ELSE IF ~udp_open
       THEN \* socket_.available() throws on a closed socket
            /\ uthrew' = TRUE
            /\ ur' = [ur EXCEPT ![r] = [@ EXCEPT !.st = "threw"]]
            /\ UNCHANGED ucalls
       ELSE /\ \E a \in Available(socket_rx) :
                  ur' = [ur EXCEPT ![r] = [@ EXCEPT !.st = "recv",
                                             !.buffer = Zeros(ReceiveBufferSize(a)),
                                             !.endpoint = NoEndpoint]]
            /\ UNCHANGED <<ucalls, uthrew>>
    /\ UNCHANGED <<connVars, lisVars, utilVars, syncVars, udp_open, socket_rx, arrived,
                   udp_outgoing_data_, udp_write_buffer_, uw, uwcalls, net>>

\* async_receive_from takes the next datagram.  One that is longer than the
\* buffer is cut to the buffer; with some operating systems the receive then
\* reports message_size.
UdpReceive(r) ==
    /\ ur[r].st = "recv"
    /\ socket_rx # <<>>
    /\ LET d == Head(socket_rx)
           n == Min(Len(d.data), Len(ur[r].buffer))
       IN \E e \in (IF Len(d.data) > Len(ur[r].buffer) THEN {"ok", "message_size"}
                    ELSE {"ok"}) :
             ur' = [ur EXCEPT ![r] = [@ EXCEPT !.st = "recvd", !.err = e, !.got = n,
                                        !.buffer = ReceivedInto(@, d.data),
                                        !.endpoint = d.from]]
    /\ socket_rx' = Tail(socket_rx)
    /\ UNCHANGED <<connVars, lisVars, utilVars, syncVars, udp_open, arrived, ucalls, uthrew,
                   udp_outgoing_data_, udp_write_buffer_, uw, uwcalls, net>>

\* async_receive_from fails, nothing having been received
UdpReceiveError(r) ==
    /\ ur[r].st = "recv"
    /\ ur' = [ur EXCEPT ![r] = [@ EXCEPT !.st = "recvd", !.err = "error", !.got = 0]]
    /\ UNCHANGED <<connVars, lisVars, utilVars, syncVars, udp_open, socket_rx, arrived, ucalls,
                   uthrew, udp_outgoing_data_, udp_write_buffer_, uw, uwcalls, net>>

\* the handler of async_receive_from
UdpReceiveHandler(r) ==
    /\ ur[r].st = "recvd"
    /\ ucalls' = Append(ucalls,
                    [r |-> r, err |-> ur[r].err, endpoint |-> ur[r].endpoint,
                     buffer |-> UdpCallbackBuffer(ur[r].err, ur[r].buffer, ur[r].got)])
    /\ ur' = [ur EXCEPT ![r] = [@ EXCEPT !.st = "fin"]]
    /\ UNCHANGED <<connVars, lisVars, utilVars, syncVars, udp_open, socket_rx, arrived, uthrew,
                   udp_outgoing_data_, udp_write_buffer_, uw, uwcalls, net>>

\* the application closes the socket of the reading handle: the outstanding
\* operations complete with operation_aborted
UdpClose ==
    /\ udp_open
    /\ udp_open' = FALSE
    /\ socket_rx' = <<>>
    /\ ur' = [r \in UdpReadIds |->
                 IF ur[r].st = "probe"
                 THEN [ur[r] EXCEPT !.st = "probed", !.err = "aborted"]
                 ELSE IF ur[r].st = "recv"
                 THEN [ur[r] EXCEPT !.st = "recvd", !.err = "aborted", !.got = 0]
                 ELSE ur[r]]
    /\ UNCHANGED <<connVars, lisVars, utilVars, syncVars, arrived, ucalls, uthrew,
                   udp_outgoing_data_, udp_write_buffer_, uw, uwcalls, net>>

\* a datagram of another sender reaches the socket
UdpArrive(from, n) ==
    /\ udp_open
    /\ Cardinality({i \in 1..Len(arrived) : arrived[i].from # WriterEndpoint}) < MaxArrive
    /\ LET d == [from |-> from, data |-> Dgram(Len(arrived) + 1, n)]
       IN /\ socket_rx' = Append(socket_rx, d)
          /\ arrived' = Append(arrived, d)
    /\ UNCHANGED <<connVars, lisVars, utilVars, syncVars, udp_open, ur, ucalls, uthrew,
                   udp_outgoing_data_, udp_write_buffer_, uw, uwcalls, net>>

\* write(Write_Handler, sent) up to async_write
UdpIncrement(size, sent) ==
    LET increment == SizeSub(size, sent)
    IN IF increment < BUFFER_LENGTH THEN increment ELSE BUFFER_LENGTH

\* mutant of UdpStageChunk: every chunk is taken from the start of the buffer
UdpStageChunkFromStart(scratch, data, sent, increment) ==
    Memcpy(scratch, 0, ReadAt(data, 0, increment), increment)

\* memcpy(&write_buffer_[0], &outgoing_data_[sent], increment)
UdpStageChunk(scratch, data, sent, increment) ==
    Memcpy(scratch, 0, ReadAt(data, sent, increment), increment)

\* the condition under which the handler of async_write ends the chain
UdpWriteFinished(error, sent, bytes_transferred, size) ==
    error # "ok" \/ sent + bytes_transferred = size

UdpArmWrite(op, data, sent) ==
    [op EXCEPT !.st = "io", !.sent = sent,
               !.increment = UdpIncrement(Len(data), sent),
               !.put = 0, !.err = "ok"]

\* write(data, callback)
UdpWrite(w, len) ==
    /\ uw[w].st = "idle"
    /\ \A q \in UdpWriteIds : q < w => uw[q].st # "idle"
    /\ \A q \in UdpWriteIds : ~UdpOutstanding(uw[q])
    /\ LET data == Buf(w, len)
       IN /\ udp_outgoing_data_' = data
          /\ uw' = [uw EXCEPT ![w] = [UdpArmWrite(@, data, 0) EXCEPT !.len = len]]
          /\ udp_write_buffer_' =
                 UdpStageChunk(udp_write_buffer_, data, 0, UdpIncrement(len, 0))
    /\ UNCHANGED <<connVars, lisVars, utilVars, syncVars, udp_open, socket_rx, arrived, ur,
                   ucalls, uthrew, uwcalls, net>>

\* async_write completes: the chunk has left as one datagram
UdpSend(w) ==
    /\ uw[w].st = "io"
    /\ LET chunk == SubSeq(udp_write_buffer_, 1, uw[w].increment)
       IN /\ net' = Append(net, chunk)
          /\ uw' = [uw EXCEPT ![w] = [@ EXCEPT !.st = "done", !.put = uw[w].increment,
                                        !.out = Append(@, chunk)]]
    /\ UNCHANGED <<connVars, lisVars, utilVars, syncVars, udp_open, socket_rx, arrived, ur,
                   ucalls, uthrew, udp_outgoing_data_, udp_write_buffer_, uwcalls>>

\* async_write fails, nothing having been sent
UdpSendFail(w) ==
    /\ uw[w].st = "io"
    /\ uw' = [uw EXCEPT ![w] = [@ EXCEPT !.st = "done", !.put = 0, !.err = "error"]]
    /\ UNCHANGED <<connVars, lisVars, utilVars, syncVars, udp_open, socket_rx, arrived, ur,
                   ucalls, uthrew, udp_outgoing_data_, udp_write_buffer_, uwcalls,
                   net>>

\* the handler of async_write
UdpWriteHandler(w) ==
    /\ uw[w].st = "done"
    /\ IF UdpWriteFinished(uw[w].err, uw[w].sent, uw[w].put, Len(udp_outgoing_data_))
       THEN /\ uwcalls' = Append(uwcalls, [w |-> w, err |-> uw[w].err])
            /\ uw' = [uw EXCEPT ![w] = [@ EXCEPT !.st = "fin"]]
            /\ UNCHANGED udp_write_buffer_
       ELSE LET next == uw[w].sent + uw[w].put
            IN /\ uw' = [uw EXCEPT ![w] = UdpArmWrite(@, udp_outgoing_data_, next)]
               /\ udp_write_buffer_' =
                      UdpStageChunk(udp_write_buffer_, udp_outgoing_data_, next,
                                    UdpIncrement(Len(udp_outgoing_data_), next))
               /\ UNCHANGED uwcalls
    /\ UNCHANGED <<connVars, lisVars, utilVars, syncVars, udp_open, socket_rx, arrived, ur,
                   ucalls, uthrew, udp_outgoing_data_, net>>

\* the network delivers the oldest datagram in flight to the reading handle
UdpTransmit ==
    /\ net # <<>>
    /\ udp_open
    /\ LET d == [from |-> WriterEndpoint, data |-> Head(net)]
       IN /\ socket_rx' = Append(socket_rx, d)
          /\ arrived' = Append(arrived, d)
    /\ net' = Tail(net)
    /\ UNCHANGED <<connVars, lisVars, utilVars, syncVars, udp_open, ur, ucalls, uthrew,
                   udp_outgoing_data_, udp_write_buffer_, uw, uwcalls>>

\* a handle on which the application issues one read at a time, and that
\* receives the datagrams of any senders
NextUdp ==
    \/ \E r \in UdpReadIds : UdpRead(r)
    \/ \E r \in UdpReadIds : UdpProbeDone(r)
    \/ \E r \in UdpReadIds : UdpProbeHandler(r)
    \/ \E r \in UdpReadIds : UdpReceive(r)
    \/ \E r \in UdpReadIds : UdpReceiveError(r)
    \/ \E r \in UdpReadIds : UdpReceiveHandler(r)
    \/ UdpClose
    \/ \E from \in 1..MaxSenders, n \in 0..MaxDgram : UdpArrive(from, n)

\* a handle on which the application issues one write at a time, and its
\* peer, which reads what the first has sent
NextUdpWrite ==
    \/ \E w \in UdpWriteIds, len \in 0..MaxUdpL : UdpWrite(w, len)
    \/ \E w \in UdpWriteIds : UdpSend(w)
    \/ \E w \in UdpWriteIds : UdpSendFail(w)
    \/ \E w \in UdpWriteIds : UdpWriteHandler(w)
    \/ UdpTransmit
    \/ \E r \in UdpReadIds : UdpRead(r)
    \/ \E r \in UdpReadIds : UdpProbeDone(r)
    \/ \E r \in UdpReadIds : UdpProbeHandler(r)
    \/ \E r \in UdpReadIds : UdpReceive(r)
    \/ \E r \in UdpReadIds : UdpReceiveHandler(r)

(***************************************************************************)
(* concurrent_queue                                                        *)
(***************************************************************************)

QThreads == 1..MaxQThreads

QueueInit ==
    /\ _size = 0
    /\ _container = <<>>
    /\ _mutex = 0
    /\ _condition = {}
    /\ qpc = [t \in QThreads |-> "idle"]
    /\ qtimed = [t \in QThreads |-> FALSE]
    /\ qarg = [t \in QThreads |-> 0]
    /\ qcalls = 0
    /\ pushed = <<>>
    /\ gone = <<>>
    /\ returns = <<>>

\* size() and empty()
size == _size
empty == (_size = 0)

\* mutant of Front: the element at the back
FrontIsBack(container) == container[Len(container)]

\* _container.front()
Front(container) == Head(container)

\* _container.pop_front()
PopFront(container) == Tail(container)

\* pop(timeout_ms) throws timeout_exception if pop(result, timeout_ms)
\* returns false
Throws(ok) == ~ok

\* push(element): the lock_guard is taken
PushLock(t) ==
    /\ qpc[t] = "idle" /\ _mutex = 0
    /\ qcalls < MaxQueueOps
    /\ qcalls' = qcalls + 1
    /\ _mutex' = t
    /\ qarg' = [qarg EXCEPT ![t] = qcalls + 1]
    /\ qpc' = [qpc EXCEPT ![t] = "push"]
    /\ UNCHANGED <<connVars, lisVars, udpVars, syncVars, _size, _container, _condition, qtimed,
                   pushed, gone, returns>>

\* do_push, then the lock_guard is released.  notify_one wakes one of the
\* threads blocked on the condition, if there is one; a thread in timed_wait
\* whose deadline passes as it is notified may consume the notification and
\* report the timeout.
DoPush(t) ==
    /\ qpc[t] = "push"
    /\ _size' = _size + 1
    /\ _container' = Append(_container, qarg[t])
    /\ pushed' = Append(pushed, qarg[t])
    /\ _mutex' = 0
    /\ IF _condition = {}
       THEN /\ qpc' = [qpc EXCEPT ![t] = "idle"]
            /\ UNCHANGED _condition
       ELSE \E u \in _condition :
              /\ _condition' = _condition \ {u}
              /\ \E s \in (IF qtimed[u] THEN {"woken", "expired"} ELSE {"woken"}) :
                    qpc' = [qpc EXCEPT ![t] = "idle", ![u] = s]
    /\ UNCHANGED <<connVars, lisVars, udpVars, syncVars, qtimed, qarg, qcalls, gone, returns>>

\* pop(result) and pop(result, timeout_ms): the unique_lock is taken
PopLock(t, timed) ==
    /\ qpc[t] = "idle" /\ _mutex = 0
    /\ qcalls < MaxQueueOps
    /\ qcalls' = qcalls + 1
    /\ _mutex' = t
    /\ qtimed' = [qtimed EXCEPT ![t] = timed]
    /\ qpc' = [qpc EXCEPT ![t] = "pop"]
    /\ UNCHANGED <<connVars, lisVars, udpVars, syncVars, _size, _container, _condition, qarg,
                   pushed, gone, returns>>

\* while ( _container.empty() ) wait; do_pop(result); return
PopCheck(t) ==
    /\ qpc[t] = "pop"
    /\ _mutex' = 0
    /\ IF _container = <<>>
       THEN /\ _condition' = _condition \cup {t}
            /\ qpc' = [qpc EXCEPT ![t] = "waiting"]
            /\ UNCHANGED <<_size, _container, gone, returns>>
       ELSE /\ _container' = PopFront(_container)
            /\ _size' = _size - 1
            /\ gone' = Append(gone, [v |-> Front(_container), by |-> "pop"])
            /\ returns' = Append(returns,
                              [t |-> t, timed |-> qtimed[t], ok |-> TRUE,
                               threw |-> qtimed[t] /\ Throws(TRUE),
                               result |-> Front(_container), left |-> Len(_container) - 1])
            /\ qpc' = [qpc EXCEPT ![t] = "idle"]
            /\ UNCHANGED _condition
    /\ UNCHANGED <<connVars, lisVars, udpVars, syncVars, qtimed, qarg, qcalls, pushed>>

\* the deadline of a timed_wait passes
Timeout(t) ==
    /\ qpc[t] = "waiting" /\ qtimed[t]
    /\ _condition' = _condition \ {t}
    /\ qpc' = [qpc EXCEPT ![t] = "expired"]
    /\ UNCHANGED <<connVars, lisVars, udpVars, syncVars, _size, _container, _mutex, qtimed,
                   qarg, qcalls, pushed, gone, returns>>

\* a spurious wake-up
Spurious(t) ==
    /\ qpc[t] = "waiting"
    /\ _condition' = _condition \ {t}
    /\ qpc' = [qpc EXCEPT ![t] = "woken"]
    /\ UNCHANGED <<connVars, lisVars, udpVars, syncVars, _size, _container, _mutex, qtimed,
                   qarg, qcalls, pushed, gone, returns>>

\* wait and timed_wait take the lock again before they return; the loop
\* tests the list again
WaitReturns(t) ==
    /\ qpc[t] = "woken" /\ _mutex = 0
    /\ _mutex' = t
    /\ qpc' = [qpc EXCEPT ![t] = "pop"]
    /\ UNCHANGED <<connVars, lisVars, udpVars, syncVars, _size, _container, _condition, qtimed,
                   qarg, qcalls, pushed, gone, returns>>

\* timed_wait returns false: pop(result, timeout_ms) returns false
TimedWaitFails(t) ==
    /\ qpc[t] = "expired" /\ _mutex = 0
    /\ returns' = Append(returns, [t |-> t, timed |-> TRUE, ok |-> FALSE,
                                   threw |-> Throws(FALSE), result |-> 0,
                                   left |-> Len(_container)])
    /\ qpc' = [qpc EXCEPT ![t] = "idle"]
    /\ UNCHANGED <<connVars, lisVars, udpVars, syncVars, _size, _container, _mutex, _condition,
                   qtimed, qarg, qcalls, pushed, gone>>

RECURSIVE Cleared(_)
Cleared(container) ==
    IF container = <<>> THEN <<>>
    ELSE <<[v |-> Head(container), by |-> "clear"]>> \o Cleared(Tail(container))

\* clear(): the list is swapped with an empty one under the lock
Clear(t) ==
    /\ qpc[t] = "idle" /\ _mutex = 0
    /\ qcalls < MaxQueueOps
    /\ qcalls' = qcalls + 1
    /\ _container' = <<>>
    /\ gone' = gone \o Cleared(_container)
    /\ UNCHANGED <<connVars, lisVars, udpVars, syncVars, _size, _mutex, _condition, qpc, qtimed,
                   qarg, pushed, returns>>

NextQueue ==
    \/ \E t \in QThreads : PushLock(t)
    \/ \E t \in QThreads : DoPush(t)
    \/ \E t \in QThreads, timed \in BOOLEAN : PopLock(t, timed)
    \/ \E t \in QThreads : PopCheck(t)
    \/ \E t \in QThreads : Timeout(t)
    \/ \E t \in QThreads : Spurious(t)
    \/ \E t \in QThreads : WaitReturns(t)
    \/ \E t \in QThreads : TimedWaitFails(t)
    \/ \E t \in QThreads : Clear(t)

(***************************************************************************)
(* synchronizer                                                            *)
(*                                                                         *)
(* The overloads without a lock argument take a scoped_lock and call the   *)
(* overload with one: they are SyncLock, the call and SyncUnlock.          *)
(***************************************************************************)

SThreads == 1..MaxSThreads

SyncInit ==
    /\ _condition_met = FALSE
    /\ _sync_mutex = 0
    /\ _sync_condition = {}
    /\ spc = [t \in SThreads |-> "idle"]
    /\ stimed = [t \in SThreads |-> FALSE]
    /\ spassed = [t \in SThreads |-> FALSE]
    /\ srounds = [t \in SThreads |-> 0]
    /\ scount = 0
    /\ slog = <<>>
    /\ sreturns = <<>>

\* mutant of OwnsLock: the lock is taken to be owned
OwnsLockAlways(mutex, t) == TRUE

\* lock.owns_lock(), for the scoped_lock of thread t
OwnsLock(mutex, t) == mutex = t

\* mutant of WaitAgain: the loop is left when the condition is set or, for a
\* wait without deadline, at once
WaitAgainUntilDeadline(met, timed, passed) == ~met /\ timed /\ ~passed

\* the test of the loops of wait(lock) and wait(lock, deadline)
WaitAgain(met, timed, passed) == ~met /\ (timed => ~passed)

\* a call: who made it, whether the lock was owned and whether it threw
\* std::runtime_error("Invalid lock")
Call(t, op, thrown) ==
    [t |-> t, op |-> op, owned |-> _sync_mutex = t, threw |-> thrown]

\* scoped_lock lock(*this): lock()
SyncLock(t) ==
    /\ spc[t] = "idle" /\ _sync_mutex = 0
    /\ _sync_mutex' = t
    /\ UNCHANGED <<connVars, lisVars, udpVars, utilVars, _condition_met,
                   _sync_condition, spc, stimed, spassed, srounds, scount, slog,
                   sreturns>>

\* the scoped_lock is released: unlock()
SyncUnlock(t) ==
    /\ spc[t] = "idle" /\ _sync_mutex = t
    /\ _sync_mutex' = 0
    /\ UNCHANGED <<connVars, lisVars, udpVars, utilVars, _condition_met,
                   _sync_condition, spc, stimed, spassed, srounds, scount, slog,
                   sreturns>>

\* set(lock)
Set(t) ==
    /\ spc[t] = "idle" /\ scount < MaxSyncOps
    /\ scount' = scount + 1
    /\ IF ~OwnsLock(_sync_mutex, t)
       THEN /\ slog' = <<Call(t, "set", TRUE)>>
            /\ UNCHANGED <<_condition_met, _sync_condition, spc>>
       ELSE /\ _condition_met' = TRUE
            /\ _sync_condition' = {}
            /\ spc' = [u \in SThreads |->
                          IF u \in _sync_condition THEN "woken" ELSE spc[u]]
            /\ slog' = <<Call(t, "set", FALSE)>>
    /\ UNCHANGED <<connVars, lisVars, udpVars, utilVars, _sync_mutex, stimed, spassed,
                   srounds, sreturns>>

\* reset(lock)
Reset(t) ==
    /\ spc[t] = "idle" /\ scount < MaxSyncOps
    /\ scount' = scount + 1
    /\ IF ~OwnsLock(_sync_mutex, t)
       THEN /\ slog' = <<Call(t, "reset", TRUE)>>
            /\ UNCHANGED _condition_met
       ELSE /\ _condition_met' = FALSE
            /\ slog' = <<Call(t, "reset", FALSE)>>
    /\ UNCHANGED <<connVars, lisVars, udpVars, utilVars, _sync_mutex, _sync_condition,
                   spc, stimed, spassed, srounds, sreturns>>

\* is_condition_met(lock)
IsConditionMet(t) ==
    /\ spc[t] = "idle" /\ scount < MaxSyncOps
    /\ scount' = scount + 1
    /\ slog' = <<Call(t, "is_condition_met", ~OwnsLock(_sync_mutex, t))>>
    /\ UNCHANGED <<connVars, lisVars, udpVars, utilVars, _condition_met, _sync_mutex,
                   _sync_condition, spc, stimed, spassed, srounds, sreturns>>

\* wait(lock), wait(lock, timeout) and wait(lock, deadline), up to the loop;
\* wait(lock, timeout) is wait(lock, now + timeout).  The deadline may have
\* passed already.
Wait(t, op, passed) ==
    /\ spc[t] = "idle" /\ scount < MaxSyncOps
    /\ scount' = scount + 1
    /\ IF ~OwnsLock(_sync_mutex, t)
       THEN /\ slog' = <<Call(t, op, TRUE)>>
            /\ UNCHANGED <<spc, stimed, spassed, srounds>>
       ELSE /\ slog' = <<Call(t, op, FALSE)>>
            /\ spc' = [spc EXCEPT ![t] = "check"]
            /\ stimed' = [stimed EXCEPT ![t] = op # "wait"]
            /\ spassed' = [spassed EXCEPT ![t] = op # "wait" /\ passed]
            /\ srounds' = [srounds EXCEPT ![t] = 0]
    /\ UNCHANGED <<connVars, lisVars, udpVars, utilVars, _condition_met, _sync_mutex,
                   _sync_condition, sreturns>>

\* the loop of wait: _condition.wait or timed_wait, which releases the lock,
\* or the return
WaitCheck(t) ==
    /\ spc[t] = "check"
    /\ IF WaitAgain(_condition_met, stimed[t], spassed[t])
       THEN /\ _sync_mutex' = 0
            /\ _sync_condition' = _sync_condition \cup {t}
            /\ spc' = [spc EXCEPT ![t] = "waiting"]
            /\ srounds' = [srounds EXCEPT ![t] = @ + 1]
            /\ UNCHANGED <<stimed, spassed, sreturns>>
       ELSE /\ sreturns' = <<[t |-> t, timed |-> stimed[t], value |-> _condition_met,
                              met |-> _condition_met, passed |-> spassed[t],
                              rounds |-> srounds[t]]>>
            /\ spc' = [spc EXCEPT ![t] = "idle"]
            /\ stimed' = [stimed EXCEPT ![t] = FALSE]
            /\ spassed' = [spassed EXCEPT ![t] = FALSE]
            /\ srounds' = [srounds EXCEPT ![t] = 0]
            /\ UNCHANGED <<_sync_mutex, _sync_condition>>
    /\ UNCHANGED <<connVars, lisVars, udpVars, utilVars, _condition_met, scount, slog>>

\* the deadline of thread t passes; its timed_wait, if it is in one, ends
DeadlinePasses(t) ==
    /\ spc[t] # "idle" /\ stimed[t] /\ ~spassed[t]
    /\ spassed' = [spassed EXCEPT ![t] = TRUE]
    /\ IF spc[t] = "waiting"
       THEN /\ _sync_condition' = _sync_condition \ {t}
            /\ spc' = [spc EXCEPT ![t] = "woken"]
       ELSE UNCHANGED <<_sync_condition, spc>>
    /\ UNCHANGED <<connVars, lisVars, udpVars, utilVars, _condition_met, _sync_mutex,
                   stimed, srounds, scount, slog, sreturns>>

\* a spurious wake-up
SyncSpurious(t) ==
    /\ spc[t] = "waiting" /\ srounds[t] < MaxWaits
    /\ _sync_condition' = _sync_condition \ {t}
    /\ spc' = [spc EXCEPT ![t] = "woken"]
    /\ UNCHANGED <<connVars, lisVars, udpVars, utilVars, _condition_met, _sync_mutex,
                   stimed, spassed, srounds, scount, slog, sreturns>>

\* wait and timed_wait take the lock again before they return to the loop
SyncWaitReturns(t) ==
    /\ spc[t] = "woken" /\ _sync_mutex = 0
    /\ _sync_mutex' = t
    /\ spc' = [spc EXCEPT ![t] = "check"]
    /\ UNCHANGED <<connVars, lisVars, udpVars, utilVars, _condition_met,
                   _sync_condition, stimed, spassed, srounds, scount, slog, sreturns>>

NextSync ==
    \/ \E t \in SThreads : SyncLock(t)
    \/ \E t \in SThreads : SyncUnlock(t)
    \/ \E t \in SThreads : Set(t)
    \/ \E t \in SThreads : Reset(t)
    \/ \E t \in SThreads : IsConditionMet(t)
    \/ \E t \in SThreads, op \in {"wait", "wait_timeout", "wait_deadline"},
          passed \in BOOLEAN : Wait(t, op, passed)
    \/ \E t \in SThreads : WaitCheck(t)
    \/ \E t \in SThreads : DeadlinePasses(t)
    \/ \E t \in SThreads : SyncSpurious(t)
    \/ \E t \in SThreads : SyncWaitReturns(t)

Init == ConnInit /\ LisInit /\ UdpInit /\ QueueInit /\ SyncInit

SpecListener == Init /\ [][NextListener]_vars

\* The worker threads are threads of the operating system and the steps of
\* stop() are consecutive statements of the calling thread: each of them is
\* taken if it stays possible.  A handler the application passed returns.
\* Nothing obliges the application to call start() or stop(), nor the network
\* to complete an accept.  A thread is at one place at a time, so its steps
\* exclude each other and the fairness of their disjunction is the fairness
\* of each.
ListenerFairness ==
    /\ \A t \in Workers :
          WF_vars(WorkerEnter(t) \/ WorkerDispatch(t) \/ WorkerReturn(t) \/ WorkerExit(t))
    /\ WF_vars(StartOpen \/ StartAccept \/ StopIo \/ StopJoin \/ StopClear)

\* a listener that is started and stopped while no client connects and no
\* accept fails by itself
NextStartStop ==
    \/ StartSpawn
    \/ StartOpen
    \/ StartAccept
    \/ \E t \in Workers : WorkerEnter(t)
    \/ \E t \in Workers : WorkerDispatch(t)
    \/ \E t \in Workers : WorkerReturn(t)
    \/ \E t \in Workers : WorkerExit(t)
    \/ StopClose
    \/ StopIo
    \/ StopJoin
    \/ StopClear

SpecStartStop == Init /\ [][NextStartStop]_vars /\ ListenerFairness

\* the application uses the handle in any way the class lets it
Next ==
    \/ \E n \in 0..MaxN : ReadStart(FALSE, n)
    \/ \E r \in ReadIds : ReadSome(r)
    \/ \E r \in ReadIds : ReadEof(r)
    \/ \E r \in ReadIds : ReadHandler(r)
    \/ \E len \in 0..MaxL : WriteStart(FALSE, len)
    \/ \E w \in WriteIds, k \in 1..BUFFER_LENGTH : WriteSome(w, k)
    \/ \E w \in WriteIds : WriteFail(w)
    \/ \E w \in WriteIds : WriteHandler(w)
    \/ PeerSend
    \/ PeerClose
    \/ Break
    \/ Release
    \/ \E r \in ReadIds : DanglingReadHandler(r)
    \/ \E w \in WriteIds : DanglingWriteHandler(w)

Spec == Init /\ [][Next]_vars

\* the application keeps its reference and issues one read and one write at
\* a time (a read and a write may be outstanding together)
NextSerial ==
    \/ \E n \in 0..MaxN : ReadStart(TRUE, n)
    \/ \E r \in ReadIds : ReadSome(r)
    \/ \E r \in ReadIds : ReadEof(r)
    \/ \E r \in ReadIds : ReadHandler(r)
    \/ \E len \in 0..MaxL : WriteStart(TRUE, len)
    \/ \E w \in WriteIds, k \in 1..BUFFER_LENGTH : WriteSome(w, k)
    \/ \E w \in WriteIds : WriteFail(w)
    \/ \E w \in WriteIds : WriteHandler(w)
    \/ PeerSend
    \/ PeerClose
    \/ Break

SpecSerial == Init /\ [][NextSerial]_vars

\* The round trip: one handle writes one buffer and its peer, another
\* tcp_connection, reads as many bytes.  The write side (outgoing_data_,
\* write_buffer_, wr) is the writer's, the read side (incoming_data_,
\* read_buffer_, rd) the reader's; the network carries outWire to inWire.
BoundaryLengths ==
    {0, 1, BUFFER_LENGTH - 1, BUFFER_LENGTH, BUFFER_LENGTH + 1, 10 * BUFFER_LENGTH}

RoundTripWrite(len) ==
    /\ wr[1].st = "idle"
    /\ WriteStart(TRUE, len)

RoundTripRead ==
    /\ wr[1].st # "idle"
    /\ rd[1].st = "idle"
    /\ ReadStart(TRUE, wr[1].len)

\* the network delivers the next byte in flight to the reader's socket
Transmit ==
    /\ Len(outWire) > 0
    /\ inWire' = Append(inWire, Head(outWire))
    /\ outWire' = Tail(outWire)
    /\ UNCHANGED <<lisVars, udpVars, utilVars, syncVars, alive, appRef, read_buffer_, write_buffer_, incoming_data_,
                   outgoing_data_, rd, wr, rcb, wcb, peerSent, inClosed, consumed,
                   sentLog, outBroken, ub, dangling>>

NextRoundTrip ==
    \/ \E len \in BoundaryLengths : RoundTripWrite(len)
    \/ RoundTripRead
    \/ Transmit
    \/ \E w \in WriteIds, k \in 1..BUFFER_LENGTH : WriteSome(w, k)
    \/ \E w \in WriteIds : WriteHandler(w)
    \/ \E r \in ReadIds : ReadSome(r)
    \/ \E r \in ReadIds : ReadHandler(r)

SpecRoundTrip == Init /\ [][NextRoundTrip]_vars

SpecUdp == Init /\ [][NextUdp]_vars

SpecUdpWrite == Init /\ [][NextUdpWrite]_vars

SpecQueue == Init /\ [][NextQueue]_vars

\* Each thread goes on with the call it is in: a thread that holds the mutex
\* does its critical section, a thread that has been woken or whose deadline
\* has passed takes the mutex when it is free and goes on.  Nothing obliges
\* a thread to make a call, a deadline to pass or a spurious wake-up to
\* happen.  A thread is at one place at a time, so its steps exclude each
\* other.
QueueFairness ==
    \A t \in QThreads :
        WF_vars(DoPush(t) \/ PopCheck(t) \/ WaitReturns(t) \/ TimedWaitFails(t))

SpecQueueFair == Init /\ [][NextQueue]_vars /\ QueueFairness

SpecSync == Init /\ [][NextSync]_vars

(***************************************************************************)
(* Properties                                                              *)
(***************************************************************************)

IsPrefix(s, t) == Len(s) <= Len(t) /\ SubSeq(t, 1, Len(s)) = s

\* the invocations of the callback of read r that report success
OkReads(r) == {i \in 1..Len(rcb[r]) : rcb[r][i].err = "ok"}

\* C1: a read(N) that completes without error hands its callback exactly N
\* bytes, the next N bytes of the peer's stream in order, however the bytes
\* arrived (the application issues one read at a time).
ReadExactlyN ==
    \A r \in ReadIds : \A i \in OkReads(r) :
        /\ Len(rcb[r][i].data) = rd[r].n
        /\ rcb[r][i].data = Stream(rd[r].start, rd[r].n)

\* C1 witness: the second read, longer than the scratch buffer and starting
\* in the middle of the stream, has completed without error
ReadExactlyNWitness ==
    /\ rcb[1] # <<>> /\ rcb[2] # <<>>
    /\ rcb[2][1].err = "ok"
    /\ rd[2].n > BUFFER_LENGTH /\ rd[2].start > 0

\* C2: every read and write invokes its callback exactly once: not while the
\* chain is running, once when it has ended; with success only after the last
\* chunk, otherwise with the error of the first chunk that failed, after
\* which no further chunk is issued.
CallbackExactlyOnce ==
    /\ \A r \in ReadIds :
        /\ rd[r].st \in {"idle", "io", "done"} => rcb[r] = <<>>
        /\ rd[r].st = "fin" => Len(rcb[r]) = 1
        /\ rd[r].failed <= 1
        /\ rd[r].failed = 1 => rd[r].st \in {"done", "fin"} /\ rd[r].err # "ok"
        /\ rd[r].st = "fin" =>
              /\ rcb[r][1].err = rd[r].err
              /\ rd[r].err = "ok" => rd[r].read_bytes + rd[r].got = rd[r].n
    /\ \A w \in WriteIds :
        /\ wr[w].st \in {"idle", "io", "done"} => wcb[w] = <<>>
        /\ wr[w].st = "fin" => Len(wcb[w]) = 1
        /\ wr[w].failed <= 1
        /\ wr[w].failed = 1 => wr[w].st \in {"done", "fin"} /\ wr[w].err # "ok"
        /\ wr[w].st = "fin" =>
              /\ wcb[w][1].err = wr[w].err
              /\ wr[w].err = "ok" => wr[w].sent + wr[w].put = wr[w].len

\* C2 witness: the peer closed in the middle of a multi-chunk read (a chunk
\* had been received), and a multi-chunk write has completed
CallbackExactlyOnceWitness ==
    /\ rd[1].st = "fin" /\ rd[1].err = "eof" /\ rd[1].read_bytes > 0
    /\ wr[1].st = "fin" /\ wr[1].err = "ok" /\ wr[1].len > BUFFER_LENGTH

\* C3 (as claimed): the buffer handed to the callback together with an error
\* carries none of the bytes received by the earlier chunks of the read.
ErrorDiscardsPartialData ==
    \A r \in ReadIds : \A i \in 1..Len(rcb[r]) :
        rcb[r][i].err # "ok" =>
            \A j \in 1..Len(rcb[r][i].data) : rcb[r][i].data[j] \notin 1..MaxStream

\* C4 (as claimed): a second read issued while one is outstanding is rejected
\* or queued: at most one read chain uses read_buffer_ and incoming_data_ at
\* any moment, and what a read callback receives is one contiguous segment of
\* the stream.
ReadChainsSerialized ==
    /\ Cardinality(ReadsOutstanding) <= 1
    /\ \A r \in ReadIds : \A i \in OkReads(r) :
          \E lo \in 0..MaxStream : rcb[r][i].data = Stream(lo, Len(rcb[r][i].data))

\* C5 (as claimed): the handle is not destroyed while an operation is
\* outstanding, and no completion handler runs against a destroyed handle.
HandleOutlivesOperations ==
    /\ (ReadsOutstanding \cup WritesOutstanding) # {} => alive
    /\ ~dangling

\* C6: write(buf) on one end and read(len(buf)) on the other, for the lengths
\* 0, 1, C-1, C, C+1 and 10*C: both callbacks report success, the read
\* delivers buf, every byte of buf goes on the wire once and in order, and the
\* write reports success only when all of buf has been sent.
RoundTrip ==
    /\ IsPrefix(sentLog, Buf(1, wr[1].len))
    /\ wcb[1] # <<>> => wcb[1][1].err = "ok" /\ sentLog = Buf(1, wr[1].len)
    /\ rcb[1] # <<>> => rcb[1][1].err = "ok" /\ rcb[1][1].data = Buf(1, wr[1].len)
    /\ ~ENABLED NextRoundTrip => Len(wcb[1]) = 1 /\ Len(rcb[1]) = 1

\* C6 witness: a buffer of 10*C bytes has made the round trip
RoundTripWitness ==
    /\ wr[1].len = 10 * BUFFER_LENGTH
    /\ wcb[1] # <<>> /\ rcb[1] # <<>>
    /\ Len(rcb[1][1].data) = 10 * BUFFER_LENGTH

\* what the writes issued so far put on the wire when each is sent whole
RECURSIVE WireOf(_)
WireOf(w) == IF w = 0 THEN <<>> ELSE WireOf(w - 1) \o Buf(w, wr[w].len)

RECURSIVE SentBy(_)
SentBy(w) == IF w = 0 THEN <<>> ELSE SentBy(w - 1) \o wr[w].out

\* a step of the read chain leaves the write side alone, and the other way round
DuplexFrame ==
    /\ (rd' # rd \/ rcb' # rcb) =>
          UNCHANGED <<write_buffer_, outgoing_data_, wr, wcb, outWire, sentLog>>
    /\ (wr' # wr \/ wcb' # wcb) =>
          UNCHANGED <<read_buffer_, incoming_data_, rd, rcb, inWire, consumed>>

\* what the reads deliver and the writes send, each as if it were alone
DuplexResults ==
    /\ ReadExactlyN
    /\ sentLog = SentBy(MaxOps)
    /\ \A w \in WriteIds :
          /\ IsPrefix(wr[w].out, Buf(w, wr[w].len))
          /\ (wcb[w] # <<>> /\ wcb[w][1].err = "ok") => wr[w].out = Buf(w, wr[w].len)

\* C7: a read and a write outstanding together on one handle both complete
\* correctly under every interleaving of their chunks: the read chain changes
\* only read_buffer_ and incoming_data_, the write chain only write_buffer_
\* and outgoing_data_, and each delivers or sends what it would alone.
DuplexIndependent == []DuplexResults /\ [][DuplexFrame]_vars

\* C7 witness: a read and a write are outstanding together, each in its second
\* chunk, the read with bytes of that chunk already in the scratch buffer
DuplexWitness ==
    /\ rd[1].st = "io" /\ rd[1].read_bytes > 0 /\ rd[1].got > 0
    /\ wr[1].st = "io" /\ wr[1].sent > 0

\* C8 (as claimed): at most one write is outstanding; the bytes on the wire
\* are all of buf1 and then all of buf2; each callback fires once; the
\* sent-so-far counter never exceeds the length of the buffer being sent.
WriteChainsSerialized ==
    /\ Cardinality(WritesOutstanding) <= 1
    /\ IsPrefix(sentLog, WireOf(MaxOps))
    /\ \A w \in WriteIds :
          /\ Len(wcb[w]) <= 1
          /\ Outstanding(wr[w]) => wr[w].sent <= Len(outgoing_data_)


\* the listener is stopped: before start(), after stop() has returned
Stopped == lpc = "idle" /\ ~running

\* The accepts in progress of the chain that the k-th start() armed: those
\* outstanding on the acceptor, and those completed without error whose
\* handler is queued or running and will arm the next one.
LiveOn(k) ==
    Cardinality({op \in acceptor_.ops : op.chain = k})
      + Cardinality({i \in 1..Len(ioservice_.queue) :
            ioservice_.queue[i].chain = k /\ ioservice_.queue[i].err = "ok"})
      + Cardinality({t \in Workers : handling[t].chain = k /\ handling[t].err = "ok"})

RECURSIVE LiveUpTo(_)
LiveUpTo(k) == IF k = 0 THEN 0 ELSE LiveUpTo(k - 1) + LiveOn(k)

\* C9 (as claimed): exactly one accept is outstanding while the listener is
\* running, none while it is stopped.  An accept that has completed without
\* error counts as outstanding until its handler has armed the next one.
ExactlyOneAccept ==
    /\ running => LiveUpTo(runs) = 1
    /\ Stopped => acceptor_.ops = {}

\* C9 (amended): none is outstanding while the listener is stopped; while it
\* is running the chain armed by start() has exactly one accept in progress
\* until an accept of the chain completes with an error, and none from then on.
AcceptChain ==
    /\ Stopped => acceptor_.ops = {}
    /\ running => LiveOn(runs) = (IF runs \in chainErr THEN 0 ELSE 1)

\* C9 witness: in the second run an accept has failed, the handler has been
\* told and has returned, and no accept is outstanding although the listener
\* is running
AcceptChainWitness ==
    /\ running /\ runs = 2 /\ runs \in chainErr
    /\ acceptor_.ops = {} /\ ioservice_.queue = <<>>
    /\ \A t \in Workers : threads_[t] = "run"
    /\ \E i \in 1..Len(calls) : calls[i].err = "error" /\ calls[i].chain = 2

\* C10 (as claimed): the handler is invoked once per completed accept, with
\* the error and no connection or with no error and the connection, and after
\* an invocation with an error it is not invoked again until the application
\* has called stop() and start().
AcceptErrorIsFinal ==
    /\ \A i \in 1..Len(calls) :
          /\ calls[i].err # "ok" => calls[i].conn = 0
          /\ calls[i].err = "ok" => calls[i].conn = calls[i].id
    /\ \A i, j \in 1..Len(calls) :
          i < j => /\ calls[i].id # calls[j].id
                   /\ calls[i].err # "ok" => calls[j].run > calls[i].run

\* C11 (as claimed): stop() on a listener that is already stopped returns
\* normally: no call of stop() ends in an exception.
StopIsIdempotent == threw = 0

\* the handler of the run that armed the accept is the one that is told, in
\* that run
OwnRun(c) == c.chain = c.run /\ c.h = c.chain

\* C12 (as claimed): after start(h1); stop(); start(h2) nothing of the first
\* run is left: when start() is called no completion is queued, and a handler
\* is invoked only for accepts armed in the run it was given to.
RestartIsFresh ==
    /\ (Stopped /\ \A t \in Workers : threads_[t] = "none") => ioservice_.queue = <<>>
    /\ \A i \in 1..Len(calls) : OwnRun(calls[i])

\* stop() has been called on a running listener and has closed the acceptor
StopUnderWay == lpc = "stop_io" /\ \A t \in Workers : threads_[t] # "none"

\* stop() has returned normally
StopReturned ==
    /\ lpc = "idle" /\ ~running /\ connection_handler_ = 0
    /\ \A t \in Workers : threads_[t] = "none"

\* C13: stop() called on a running listener returns, every worker thread
\* having left the reactor loop and having been joined, whatever the worker
\* threads were doing when it was called.
StartStopTerminates == StopUnderWay ~> StopReturned

\* C13 witness: no connection was ever accepted, stop() has stopped the
\* reactor and joined the first worker, and the second worker has not yet
\* entered the reactor loop
StartStopWitness ==
    /\ runs = 1 /\ events = 0 /\ calls = <<>> /\ lpc = "stop_join" /\ ioservice_.stopped
    /\ joining = 2 /\ threads_[1] = "none" /\ threads_[2] = "spawned"

\* the accept into connection k was aborted by stop() and its completion waits
AbortQueued(k) ==
    \E i \in 1..Len(ioservice_.queue) :
        ioservice_.queue[i].conn = k /\ ioservice_.queue[i].err = "aborted"

\* the handler was told of the accept into connection k: an error, no connection
AbortTold(k) ==
    \E i \in 1..Len(calls) :
        calls[i].id = k /\ calls[i].err = "aborted" /\ calls[i].conn = 0

\* C14 (as claimed): the accept in flight when stop() is called completes
\* with an error and the handler is told; the completion is not left waiting.
AbortedAcceptDelivered ==
    \A k \in 1..(MaxRuns + MaxEvents) : AbortQueued(k) ~> AbortTold(k)

\* the invocations of read callbacks without error, in order
OkCalls == SelectSeq(ucalls, LAMBDA c : c.err = "ok")

\* the number of times the callback of read r has been invoked
UdpCallbacks(r) == Cardinality({i \in 1..Len(ucalls) : ucalls[i].r = r})

\* C15: the k-th read that completes without error hands its callback the
\* whole payload and the sender address of the k-th datagram that reached the
\* socket: one datagram, not cut and not joined with another, whatever
\* socket_.available() reported and whatever arrived after the probe.
OneDatagramPerRead ==
    /\ Len(OkCalls) <= Len(arrived)
    /\ \A k \in 1..Len(OkCalls) :
          /\ OkCalls[k].buffer = arrived[k].data
          /\ OkCalls[k].endpoint = arrived[k].from

\* C15 witness: two datagrams of different sizes and senders; the second had
\* arrived when the first read asked for the available bytes, which counted
\* both; two reads have delivered them
OneDatagramWitness ==
    /\ Len(OkCalls) = 2 /\ Len(arrived) >= 2
    /\ arrived[1].from # arrived[2].from
    /\ 0 < Len(arrived[1].data) /\ Len(arrived[1].data) < Len(arrived[2].data)
    /\ ur[1].st = "fin" /\ Len(ur[1].buffer) > Len(arrived[1].data)

\* C16 (as claimed): a read whose probe or receive fails invokes its callback
\* once, with the error, an empty buffer and the default address.
ErrorResultsEmpty ==
    /\ \A i \in 1..Len(ucalls) :
          ucalls[i].err # "ok" =>
              ucalls[i].buffer = <<>> /\ ucalls[i].endpoint = NoEndpoint
    /\ \A r \in UdpReadIds :
          UdpCallbacks(r) = (IF ur[r].st = "fin" THEN 1 ELSE 0)

RECURSIVE Concat(_)
Concat(chunks) == IF chunks = <<>> THEN <<>> ELSE Head(chunks) \o Concat(Tail(chunks))

\* ceil(L / C), and 1 for L = 0
Sends(L) == IF L = 0 THEN 1 ELSE (L + BUFFER_LENGTH - 1) \div BUFFER_LENGTH

\* the number of times the callback of write w has been invoked
UdpWriteCallbacks(w) == Cardinality({i \in 1..Len(uwcalls) : uwcalls[i].w = w})

\* C17: write(buf) sends buf in order in datagrams of at most C bytes,
\* ceil(L / C) of them (one empty datagram for L = 0) when no send fails; the
\* callback is invoked once, after the last send or at the first error; each
\* read of the peer delivers one of the datagrams, at most C bytes.
UdpChunkedWrite ==
    /\ \A w \in UdpWriteIds :
          /\ \A i \in 1..Len(uw[w].out) : Len(uw[w].out[i]) <= BUFFER_LENGTH
          /\ IsPrefix(Concat(uw[w].out), Buf(w, uw[w].len))
          /\ Len(uw[w].out) <= Sends(uw[w].len)
          /\ UdpWriteCallbacks(w) = (IF uw[w].st = "fin" THEN 1 ELSE 0)
          /\ (uw[w].st = "fin" /\ uw[w].err = "ok") =>
                 /\ Len(uw[w].out) = Sends(uw[w].len)
                 /\ Concat(uw[w].out) = Buf(w, uw[w].len)
          /\ (UdpOutstanding(uw[w]) /\ uw[w].err = "ok") =>
                 Len(Concat(uw[w].out)) = uw[w].sent + uw[w].put
    /\ \A i \in 1..Len(uwcalls) : uwcalls[i].err = uw[uwcalls[i].w].err
    /\ \A k \in 1..Len(OkCalls) :
          /\ Len(OkCalls[k].buffer) <= BUFFER_LENGTH
          /\ OkCalls[k].buffer = arrived[k].data
          /\ \A w \in UdpWriteIds :
                 uw[w].len > BUFFER_LENGTH => OkCalls[k].buffer # Buf(w, uw[w].len)

\* C17 witness: a buffer of more than 2 * C bytes has been written and the
\* callback told; the peer has read three datagrams, the chunks of the buffer
UdpChunkedWitness ==
    /\ uw[1].st = "fin" /\ uw[1].err = "ok" /\ uw[1].len > 2 * BUFFER_LENGTH
    /\ Len(uwcalls) = 1
    /\ Len(OkCalls) = 3
    /\ \A k \in 1..3 : OkCalls[k].buffer = uw[1].out[k]

\* no call is in progress
Quiescent == \A t \in QThreads : qpc[t] = "idle"

\* the elements that pop has returned, in the order of do_pop
PoppedValues == [i \in 1..Len(SelectSeq(gone, LAMBDA g : g.by = "pop")) |->
                    SelectSeq(gone, LAMBDA g : g.by = "pop")[i].v]
\* the results of the calls of pop that returned an element
Results == [i \in 1..Len(SelectSeq(returns, LAMBDA c : c.ok)) |->
               SelectSeq(returns, LAMBDA c : c.ok)[i].result]

\* C18: the elements removed from the queue, followed by those it holds, are
\* the elements pushed, in push order; what the calls of pop return is what
\* do_pop removed, in that order: nothing skipped, nothing twice, nothing
\* that was not pushed.
FifoOrder ==
    /\ [i \in 1..Len(gone) |-> gone[i].v] \o _container = pushed
    /\ Results = PoppedValues
    /\ \A i, j \in 1..Len(pushed) : i < j => pushed[i] < pushed[j]

\* C18 witness: two elements have been pushed and two threads have popped
\* one each, the first pushed first
FifoWitness ==
    /\ Len(pushed) = 2 /\ _container = <<>> /\ Quiescent
    /\ Len(returns) = 2
    /\ returns[1].ok /\ returns[2].ok /\ returns[1].t # returns[2].t
    /\ returns[1].result = pushed[1] /\ returns[2].result = pushed[2]

\* C19 (as claimed): when no call is in progress size() is the number of
\* elements the queue holds and empty() is true exactly if it holds none.
SizeIsCount ==
    Quiescent => /\ size = Len(_container)
                 /\ empty <=> (_container = <<>>)

\* C20 (as claimed): a timed pop returns true only having removed the front
\* element into result, returns false only with the queue empty at that
\* moment, and pop(timeout_ms) throws exactly when pop(result, timeout_ms)
\* returns false.
TimedPopContract ==
    /\ Results = PoppedValues
    /\ \A i \in 1..Len(returns) :
          /\ ~returns[i].ok => returns[i].timed /\ returns[i].left = 0
          /\ returns[i].timed => (returns[i].threw <=> ~returns[i].ok)

\* the worker threads that are inside the handler
InHandler == {t \in Workers : threads_[t] = "handler"}

\* the connections handed to the handler, in the order of the invocations
Handed == SelectSeq(calls, LAMBDA c : c.err = "ok")

\* C25 (as claimed): at most one invocation of the handler is in progress at
\* any time, and the connections are handed over in the order in which they
\* were accepted.
HandlerNeverOverlaps ==
    /\ Cardinality(InHandler) <= 1
    /\ \A i, j \in 1..Len(Handed) : i < j => Handed[i].id < Handed[j].id

\* the chunk handler of read r re-arms the chain in this step
Rearmed(r) == rd[r].st = "done" /\ rd'[r].st \in {"io", "done"} /\ rd'[r] # rd[r]

\* the chunk handler of read r ends the chain with success in this step
Succeeded(r) == rd[r].st = "done" /\ rd'[r].st = "fin" /\ rd[r].err = "ok"

\* s and t have the same length and differ at most at the positions lo+1..hi
SameOutside(s, t, lo, hi) ==
    /\ Len(s) = Len(t)
    /\ \A i \in 1..Len(s) : (i <= lo \/ i > hi) => s[i] = t[i]

\* between the steps of a read chain: offset (read_bytes) and remaining
\* (bytes) add up to n, the receive under way has been asked for
\* min(remaining, C) bytes and has not got more, and a receive that has
\* completed without error has got exactly that many
ReadChainState ==
    /\ ~ub
    /\ \A r \in ReadIds :
          Outstanding(rd[r]) =>
              /\ rd[r].read_bytes + rd[r].bytes = rd[r].n
              /\ 0 <= rd[r].read_bytes /\ rd[r].read_bytes <= rd[r].n
              /\ Len(incoming_data_) = rd[r].n
              /\ ReadChunkSize(rd[r].bytes) = Min(rd[r].bytes, BUFFER_LENGTH)
              /\ rd[r].got <= Min(rd[r].bytes, BUFFER_LENGTH)
              /\ (rd[r].st = "done" /\ rd[r].err = "ok") =>
                     rd[r].got = Min(rd[r].bytes, BUFFER_LENGTH)

\* a step of a read chain: the chunk is copied to [offset, offset + len) and
\* nowhere else, the offset grows by len and remaining shrinks by len, and the
\* chain ends with success exactly if nothing remains
ReadChainStep ==
    \A r \in ReadIds :
        /\ Rearmed(r) =>
              /\ rd[r].err = "ok" /\ rd[r].bytes - rd[r].got > 0
              /\ rd'[r].read_bytes = rd[r].read_bytes + rd[r].got
              /\ rd'[r].read_bytes >= rd[r].read_bytes
              /\ rd'[r].bytes = rd[r].bytes - rd[r].got
              /\ rd'[r].bytes <= rd[r].bytes /\ rd'[r].bytes >= 0
              /\ SameOutside(incoming_data_, incoming_data_',
                             rd[r].read_bytes, rd[r].read_bytes + rd[r].got)
        /\ Succeeded(r) =>
              /\ rd[r].bytes - rd[r].got = 0
              /\ rd[r].read_bytes + rd[r].got = rd[r].n
              /\ SameOutside(incoming_data_, rcb'[r][Len(rcb'[r])].data,
                             rd[r].read_bytes, rd[r].read_bytes + rd[r].got)
        /\ (rd[r].st = "done" /\ rd[r].err = "ok" /\ rd[r].bytes - rd[r].got = 0
               /\ rd'[r] # rd[r]) => Succeeded(r)

\* C24: during read(n) every receive is asked for min(remaining, C) bytes;
\* offset + remaining = n and 0 <= offset <= n at every chunk boundary; the
\* bytes received are copied to [offset, offset + len) inside the n bytes of
\* the accumulation buffer and nowhere else; the offset only grows, remaining
\* only shrinks and is never negative; the chain ends with success exactly
\* when remaining reaches zero.
ReadChainInvariant == []ReadChainState /\ [][ReadChainStep]_vars

\* C24 witness: a read of more than 2 * C bytes whose third receive has
\* completed: offset 2 * C, the rest remaining
ReadChainWitness ==
    /\ rd[1].n > 2 * BUFFER_LENGTH /\ rd[1].st = "done" /\ rd[1].err = "ok"
    /\ rd[1].read_bytes = 2 * BUFFER_LENGTH
    /\ rd[1].bytes = rd[1].n - 2 * BUFFER_LENGTH /\ rd[1].got = rd[1].bytes

\* thread t is inside a call of pop
InPop(t) == qpc[t] \in {"pop", "waiting", "woken", "expired"}

\* thread t is blocked in a pop without timeout
BlockedUntimed(t) == qpc[t] \in {"waiting", "woken"} /\ ~qtimed[t]

\* the element v is in the queue and at least as many threads are inside pop
\* as there are elements up to v
Awaited(v) ==
    \E i \in 1..Len(_container) :
        /\ _container[i] = v
        /\ Cardinality({t \in QThreads : InPop(t)}) >= i

\* the element v is not in the queue
Taken(v) == \A i \in 1..Len(_container) : _container[i] # v

\* C21 (as claimed): pop returns an element only when there is one; an
\* element pushed while enough threads are inside pop is eventually popped;
\* no pop without timeout stays blocked for ever while the queue holds an
\* element.
NoWakeupLost ==
    /\ [](Results = PoppedValues)
    /\ \A v \in 1..MaxQueueOps : Awaited(v) ~> Taken(v)
    /\ \A t \in QThreads :
          (BlockedUntimed(t) /\ _container # <<>>)
              ~> (~BlockedUntimed(t) \/ _container = <<>>)

\* The wait of thread t returns.
WaitReturn(t) == spc[t] = "check" /\ spc'[t] = "idle"

\* How it may return: a wait without deadline with the condition set, a wait
\* with one with the value the condition has, and with false only past the
\* deadline.
ReturnOk(t) ==
    LET r == sreturns'[1]
    IN  /\ sreturns' # <<>> /\ r.t = t /\ r.timed = stimed[t]
        /\ ~r.timed => _condition_met'
        /\ r.timed => /\ r.value <=> _condition_met'
                      /\ ~r.value => r.passed /\ spassed[t]

\* The condition changes only in a call of set or reset that holds the lock.
ConditionKept ==
    _condition_met' # _condition_met =>
        /\ scount' = scount + 1
        /\ slog'[1].owned /\ ~slog'[1].threw
        /\ slog'[1].op = IF _condition_met' THEN "set" ELSE "reset"

\* C22: the synchronizer is a manual-reset event: the condition starts false,
\* wait() returns only with the condition set, however often it was woken, a
\* timed wait returns the value the condition has when it returns, and false
\* only past its deadline, and the condition changes only by set() and reset().
ManualResetEvent ==
    /\ [](scount = 0 => ~_condition_met)
    /\ [][(\A t \in SThreads : WaitReturn(t) => ReturnOk(t)) /\ ConditionKept]_vars

\* A wait without deadline has returned after it was woken at least once with
\* the condition not set.
ManualResetWitness ==
    /\ sreturns # <<>>
    /\ ~sreturns[1].timed /\ sreturns[1].rounds >= 2 /\ sreturns[1].met

\* A call is made with a lock that does not own the mutex.
Misuse == scount' = scount + 1 /\ ~slog'[1].owned

\* C23: a call of set, reset, wait or is_condition_met with a lock that does
\* not own the mutex throws "Invalid lock" and does nothing else: the condition
\* is as it was, no waiter is woken and the caller is not waiting.
InvalidLockThrows ==
    [][Misuse => /\ slog'[1].threw
                 /\ _condition_met' = _condition_met
                 /\ _sync_condition' = _sync_condition
                 /\ spc' = spc
                 /\ _sync_mutex' = _sync_mutex]_vars

\* set() was called without the lock while a thread waited for the condition:
\* it threw.
InvalidLockWitness ==
    /\ slog # <<>>
    /\ slog[1].op = "set" /\ ~slog[1].owned /\ slog[1].threw
    /\ \E u \in _sync_condition : u # slog[1].t /\ ~stimed[u]
    /\ ~_condition_met /\ scount = MaxSyncOps

====
